---- MODULE Spec2Model ----
(***************************************************************************)
(* Entity validation and construction layer (servercore) and the two RPC   *)
(* handlers built on it (users).                                            *)
(*                                                                          *)
(* Strings are TLA+ strings.  The format validators of the uuid, validator  *)
(* and url crates are predicates on strings, given by the sets of inputs    *)
(* they accept.  A title or a description is represented by its byte        *)
(* length, the only observation Product::create makes of it.                *)
(***************************************************************************)
EXTENDS Integers, Sequences, FiniteSets, TLC

VARIABLES
    op,         \* entity model: name of the last operation called
    args,       \* entity model: its arguments
    res,        \* entity model: its result (Ok / Err / Panic)
    u,          \* entity model: the User value the caller holds (&self)
    pc,         \* handler: position inside the request
    handler,    \* handler: which RPC is running
    req,        \* handler: the request message
    ids,        \* handler: the identifiers minted for this request
    calls,      \* handler: constructors invoked so far for this request
    userRes,    \* handler: result of User::create
    bizRes,     \* handler: result of Business::create
    reply,      \* handler: Result<Response, Status> returned to the client
    parPc,      \* parallel map: idle, mapping or collected
    parIn,      \* parallel map: the input vector
    parPending, \* parallel map: indices no worker has mapped yet
    parSlots,   \* parallel map: the output buffer, one slot per index
    parDone,    \* parallel map: indices in the order the workers finished
    parOut      \* parallel map: the collected vector

entityVars  == <<op, args, res, u>>
handlerVars == <<pc, handler, req, ids, calls, userRes, bizRes, reply>>
parVars     == <<parPc, parIn, parPending, parSlots, parDone, parOut>>
vars        == <<op, args, res, u, pc, handler, req, ids, calls, userRes,
                 bizRes, reply, parPc, parIn, parPending, parSlots, parDone, parOut>>

----------------------------------------------------------------------------
(* Bounds *)

MaxListLen == 2

(* Input universes *)

Uuid1 == "25650673-c3e8-4cbb-a7bd-e27d268157b8"
Uuid2 == "7c9e6679-7425-40de-944b-e07fc1f90ae7"
Uuids == {Uuid1, Uuid2}
IdInputs == Uuids \cup {"not-a-uuid"}

Emails == {"email@example.com", "email@example2.com"}
EmailInputs == Emails \cup {"email"}

Phones == {"+5521965237969", "+5521999999999"}
PhoneInputs == Phones \cup {"3091u2304"}

Urls == {"http://image.url.com"}
UrlInputs == Urls \cup {"oijeaij"}

AddressInputs == {"Rua Dominguinhos", "XDXD"}
PasswordInputs == {"XDXD", "pw"}
TagInputs == {"admin", "user"}

TitleLens == {4, 5, 100, 101, 1001}
DescriptionLens == {4, 5, 1000, 1001}

PriceInputs == {"2000", "10,50", "abc"}

RECURSIVE SeqsUpTo(_, _)
SeqsUpTo(S, n) ==
    IF n = 0 THEN {<<>>}
    ELSE LET shorter == SeqsUpTo(S, n - 1)
         IN  shorter \cup {Append(s, x) : s \in {t \in shorter : Len(t) = n - 1}, x \in S}

TagLists == SeqsUpTo(TagInputs, MaxListLen)
IdLists  == SeqsUpTo(IdInputs, MaxListLen)

----------------------------------------------------------------------------
(* External validators and conversions *)

UuidParseStr(s) == s \in Uuids

validate_email(s) == s \in Emails

validate_phone(s) == s \in Phones

UrlParse(s) == s \in Urls

\* Money::from_str(s, iso::BRL): "." groups digits, "," separates the cents
MoneyParses(s) == s \in {"2000", "10,50"}

\* Money::from_str(s, iso::BRL).unwrap().to_string()
MoneyToString(s) ==
    CASE s = "2000"  -> "R$2.000,00"
      [] s = "10,50" -> "R$10,50"

\* str::to_string: an owned copy with the same bytes
to_string(s) == s

\* v.par_iter().map(|&val| val.to_string()).collect(): rayon's indexed
\* collect writes the image of element i into slot i of the output
ParMapCollect(v) == [i \in 1..Len(v) |-> to_string(v[i])]

Ok(v)  == [kind |-> "Ok", val |-> v]
Err(e) == [kind |-> "Err", reason |-> e]
Panic  == [kind |-> "Panic"]
None   == [kind |-> "None"]
Some(v) == [kind |-> "Some", val |-> v]

----------------------------------------------------------------------------
(* servercore: User *)

UserNew(user_id, email, phone, address, image_url, password_hash, confirmed, roles) ==
    [user_id       |-> to_string(user_id),
     email         |-> to_string(email),
     phone         |-> to_string(phone),
     address       |-> to_string(address),
     image_url     |-> to_string(image_url),
     password_hash |-> to_string(password_hash),
     confirmed     |-> confirmed,
     roles         |-> ParMapCollect(roles)]

\* UserCreate with the phone rule run before the email rule
UserCreate_PhoneFirst(user_id, email, phone, address, image_url, password_hash, confirmed, roles) ==
    IF ~UuidParseStr(user_id) THEN Err("UUID is not valid")
    ELSE IF ~validate_phone(phone) THEN Err("Phone is invalid")
    ELSE IF ~validate_email(email) THEN Err("Email is not valid")
    ELSE IF ~UrlParse(image_url) THEN Err("URL is not valid")
    ELSE Ok(UserNew(user_id, email, phone, address, image_url, password_hash,
                    confirmed, roles))

UserCreate(user_id, email, phone, address, image_url, password_hash, confirmed, roles) ==
    IF ~UuidParseStr(user_id) THEN Err("UUID is not valid")
    ELSE IF ~validate_email(email) THEN Err("Email is not valid")
    ELSE IF ~validate_phone(phone) THEN Err("Phone is invalid")
    ELSE IF ~UrlParse(image_url) THEN Err("URL is not valid")
    ELSE Ok(UserNew(user_id, email, phone, address, image_url, password_hash,
                    confirmed, roles))

\* update_email filling the other fields from User::default() instead of self
update_email_FromDefault(self, email) ==
    IF ~validate_email(email) THEN Err("Email is not valid")
    ELSE Ok(UserNew("", email, "", "", "", "", FALSE, <<>>))

update_email(self, email) ==
    IF ~validate_email(email) THEN Err("Email is not valid")
    ELSE Ok([self EXCEPT !.email = to_string(email)])

update_phone(self, phone) ==
    IF ~validate_phone(phone) THEN Err("Phone number is not valid")
    ELSE Ok([self EXCEPT !.phone = to_string(phone)])

update_address(self, address) ==
    Ok([self EXCEPT !.address = to_string(address)])

----------------------------------------------------------------------------
(* servercore: Product *)

ProductNew(product_id, business_id, title, description, image_url, price, unformatted_price, product_tags) ==
    [product_id        |-> to_string(product_id),
     business_id       |-> to_string(business_id),
     title             |-> title,
     description       |-> description,
     image_url         |-> to_string(image_url),
     price             |-> to_string(price),
     unformatted_price |-> to_string(unformatted_price),
     product_tags      |-> ParMapCollect(product_tags)]

\* ProductCreate with the parse failure turned into a reason
ProductCreate_PriceReason(product_id, business_id, title, description, image_url, unformatted_price, product_tags) ==
    IF ~UuidParseStr(product_id) THEN Err("UUID is not valid")
    ELSE IF ~UuidParseStr(business_id) THEN Err("Business UUID is not valid")
    ELSE IF ~UrlParse(image_url) THEN Err("URL is not valid")
    ELSE IF title < 5 THEN Err("Too short title")
    ELSE IF title > 100 THEN Err("Too big title")
    ELSE IF description < 5 THEN Err("Too short description")
    ELSE IF title > 1000 THEN Err("Too big description")
    ELSE IF ~MoneyParses(unformatted_price) THEN Err("Price is not valid")
    ELSE Ok(ProductNew(product_id, business_id, title, description, image_url,
                       MoneyToString(unformatted_price), unformatted_price,
                       product_tags))

\* ProductCreate with the upper bound tested on the description
ProductCreate_DescriptionBound(product_id, business_id, title, description, image_url, unformatted_price, product_tags) ==
    IF ~UuidParseStr(product_id) THEN Err("UUID is not valid")
    ELSE IF ~UuidParseStr(business_id) THEN Err("Business UUID is not valid")
    ELSE IF ~UrlParse(image_url) THEN Err("URL is not valid")
    ELSE IF title < 5 THEN Err("Too short title")
    ELSE IF title > 100 THEN Err("Too big title")
    ELSE IF description < 5 THEN Err("Too short description")
    ELSE IF description > 1000 THEN Err("Too big description")
    ELSE IF ~MoneyParses(unformatted_price) THEN Panic
    ELSE Ok(ProductNew(product_id, business_id, title, description, image_url,
                       MoneyToString(unformatted_price), unformatted_price,
                       product_tags))

ProductCreate(product_id, business_id, title, description, image_url, unformatted_price, product_tags) ==
    IF ~UuidParseStr(product_id) THEN Err("UUID is not valid")
    ELSE IF ~UuidParseStr(business_id) THEN Err("Business UUID is not valid")
    ELSE IF ~UrlParse(image_url) THEN Err("URL is not valid")
    ELSE IF title < 5 THEN Err("Too short title")
    ELSE IF title > 100 THEN Err("Too big title")
    ELSE IF description < 5 THEN Err("Too short description")
    ELSE IF title > 1000 THEN Err("Too big description")
    ELSE IF ~MoneyParses(unformatted_price) THEN Panic
    ELSE Ok(ProductNew(product_id, business_id, title, description, image_url,
                       MoneyToString(unformatted_price), unformatted_price,
                       product_tags))

----------------------------------------------------------------------------
(* servercore: Business *)

BusinessNew(business_id, user_id, products_id, business_tags) ==
    [business_id   |-> to_string(business_id),
     user_id       |-> to_string(user_id),
     products_id   |-> ParMapCollect(products_id),
     business_tags |-> ParMapCollect(business_tags)]

\* BusinessCreate looking at the first product id only
BusinessCreate_FirstProductOnly(business_id, user_id, products_id, business_tags) ==
    IF ~UuidParseStr(business_id) THEN Err("A ID is not a UUID")
    ELSE IF ~UuidParseStr(user_id) THEN Err("A ID is not a UUID")
    ELSE IF Len(products_id) > 0 /\ ~UuidParseStr(products_id[1])
         THEN Err("A ID is not a UUID")
    ELSE Ok(BusinessNew(business_id, user_id, products_id, business_tags))

BusinessCreate(business_id, user_id, products_id, business_tags) ==
    IF ~UuidParseStr(business_id) THEN Err("A ID is not a UUID")
    ELSE IF ~UuidParseStr(user_id) THEN Err("A ID is not a UUID")
    ELSE IF \E i \in 1..Len(products_id) : ~UuidParseStr(products_id[i])
         THEN Err("A ID is not a UUID")
    ELSE Ok(BusinessNew(business_id, user_id, products_id, business_tags))

----------------------------------------------------------------------------
(* A caller of the entity model: one call per step *)

UpdateOps == {"User.update_email", "User.update_phone", "User.update_address"}

\* The User values the caller can call an update on: the one it holds and
\* the one the last call returned
Receivers ==
    (IF u = None THEN {} ELSE {u})
        \cup (IF op \in UpdateOps /\ res.kind = "Ok" THEN {res.val} ELSE {})

CallUserNew ==
    /\ op = "none"
    /\ \E user_id \in IdInputs, email \in EmailInputs, phone \in PhoneInputs,
       address \in AddressInputs, image_url \in UrlInputs,
       password_hash \in PasswordInputs, confirmed \in BOOLEAN, roles \in TagLists :
        /\ op' = "User.new"
        /\ args' = [user_id |-> user_id, email |-> email, phone |-> phone,
                    address |-> address, image_url |-> image_url,
                    password_hash |-> password_hash, confirmed |-> confirmed,
                    roles |-> roles]
        /\ res' = Ok(UserNew(user_id, email, phone, address, image_url,
                             password_hash, confirmed, roles))
        /\ u' = res'.val
        /\ UNCHANGED <<handlerVars, parVars>>

CallUserCreate ==
    /\ op = "none"
    /\ \E user_id \in IdInputs, email \in EmailInputs, phone \in PhoneInputs,
       address \in AddressInputs, image_url \in UrlInputs,
       password_hash \in PasswordInputs, confirmed \in BOOLEAN, roles \in TagLists :
        /\ op' = "User.create"
        /\ args' = [user_id |-> user_id, email |-> email, phone |-> phone,
                    address |-> address, image_url |-> image_url,
                    password_hash |-> password_hash, confirmed |-> confirmed,
                    roles |-> roles]
        /\ res' = UserCreate(user_id, email, phone, address, image_url,
                             password_hash, confirmed, roles)
        /\ u' = IF res'.kind = "Ok" THEN res'.val ELSE None
        /\ UNCHANGED <<handlerVars, parVars>>

CallUpdateEmail ==
    \E self \in Receivers, email \in EmailInputs :
        /\ op' = "User.update_email"
        /\ args' = [self |-> self, email |-> email]
        /\ res' = update_email(self, email)
        /\ u' = self
        /\ UNCHANGED <<handlerVars, parVars>>

CallUpdatePhone ==
    \E self \in Receivers, phone \in PhoneInputs :
        /\ op' = "User.update_phone"
        /\ args' = [self |-> self, phone |-> phone]
        /\ res' = update_phone(self, phone)
        /\ u' = self
        /\ UNCHANGED <<handlerVars, parVars>>

CallUpdateAddress ==
    \E self \in Receivers, address \in AddressInputs :
        /\ op' = "User.update_address"
        /\ args' = [self |-> self, address |-> address]
        /\ res' = update_address(self, address)
        /\ u' = self
        /\ UNCHANGED <<handlerVars, parVars>>

CallProductCreate ==
    /\ op = "none"
    /\ \E product_id \in IdInputs, business_id \in IdInputs, title \in TitleLens,
       description \in DescriptionLens, image_url \in UrlInputs,
       unformatted_price \in PriceInputs, product_tags \in TagLists :
        /\ op' = "Product.create"
        /\ args' = [product_id |-> product_id, business_id |-> business_id,
                    title |-> title, description |-> description,
                    image_url |-> image_url,
                    unformatted_price |-> unformatted_price,
                    product_tags |-> product_tags]
        /\ res' = ProductCreate(product_id, business_id, title, description,
                                image_url, unformatted_price, product_tags)
        /\ u' = None
        /\ UNCHANGED <<handlerVars, parVars>>

CallBusinessCreate ==
    /\ op = "none"
    /\ \E business_id \in IdInputs, user_id \in IdInputs, products_id \in IdLists,
       business_tags \in TagLists :
        /\ op' = "Business.create"
        /\ args' = [business_id |-> business_id, user_id |-> user_id,
                    products_id |-> products_id, business_tags |-> business_tags]
        /\ res' = BusinessCreate(business_id, user_id, products_id, business_tags)
        /\ u' = None
        /\ UNCHANGED <<handlerVars, parVars>>

\* The caller drops the values it holds and starts over
Drop ==
    /\ op # "none"
    /\ op' = "none"
    /\ args' = None
    /\ res' = None
    /\ u' = None
    /\ UNCHANGED <<handlerVars, parVars>>

----------------------------------------------------------------------------
(* users: the RPC handlers *)

\* Identifiers taken from outside instead of minted
NewV4_Unchecked == IdInputs

\* The strings Uuid::new_v4().to_string() can return
NewV4 == Uuids

\* Status::new(Code::InvalidArgument, e)
Status(code, message) == [code |-> code, message |-> message]

Requests ==
    [email : EmailInputs, phone : PhoneInputs, password : PasswordInputs,
     address : AddressInputs, image_url : UrlInputs]

\* create_user runs without any await between its statements: one step
CreateUser ==
    /\ pc \in {"idle", "done"}
    /\ \E request \in Requests, new_id \in NewV4 :
        LET email == request.email
            password == request.password
            phone == request.phone
            address == request.address
            image_url == request.image_url
            roles == <<"user">>
            created == UserCreate(to_string(new_id), email, phone, password,
                                  image_url, address, FALSE, roles)
            user == created.val
        IN  /\ handler' = "create_user"
            /\ req' = request
            /\ ids' = [user_id |-> new_id]
            /\ calls' = <<"User::create">>
            /\ userRes' = created
            /\ bizRes' = None
            /\ reply' = IF created.kind = "Err"
                        THEN Err(Status("InvalidArgument", created.reason))
                        ELSE Ok([user_id   |-> user.user_id,
                                 email     |-> user.email,
                                 phone     |-> user.phone,
                                 address   |-> user.address,
                                 image_url |-> user.image_url,
                                 roles     |-> <<to_string("user")>>])
            /\ pc' = "done"
    /\ UNCHANGED <<entityVars, parVars>>

\* create_business, lines 53-60: the identifiers and the request's fields
BusinessStart ==
    /\ pc \in {"idle", "done"}
    /\ \E request \in Requests, user_id \in NewV4, business_id \in NewV4 :
        /\ handler' = "create_business"
        /\ req' = request
        /\ ids' = [user_id |-> to_string(user_id),
                   business_id |-> to_string(business_id)]
    /\ calls' = <<>>
    /\ userRes' = None
    /\ bizRes' = None
    /\ reply' = None
    /\ pc' = "user_create"
    /\ UNCHANGED <<entityVars, parVars>>

\* The user_create step going on to Business::create after a rejection
BusinessUserCreate_NoReturn ==
    /\ pc = "user_create"
    /\ LET created == UserCreate(ids.user_id, req.email, req.phone, req.password,
                                 req.image_url, req.address, FALSE, <<"business">>)
       IN  /\ userRes' = created
           /\ calls' = Append(calls, "User::create")
           /\ reply' = IF created.kind = "Err"
                       THEN Err(Status("InvalidArgument", created.reason))
                       ELSE reply
           /\ pc' = "business_create"
    /\ UNCHANGED <<handler, req, ids, bizRes, entityVars, parVars>>

\* create_business, lines 61-73
BusinessUserCreate ==
    /\ pc = "user_create"
    /\ LET created == UserCreate(ids.user_id, req.email, req.phone, req.password,
                                 req.image_url, req.address, FALSE, <<"business">>)
       IN  /\ userRes' = created
           /\ calls' = Append(calls, "User::create")
           /\ IF created.kind = "Err"
              THEN /\ reply' = Err(Status("InvalidArgument", created.reason))
                   /\ pc' = "done"
              ELSE /\ reply' = reply
                   /\ pc' = "business_create"
    /\ UNCHANGED <<handler, req, ids, bizRes, entityVars, parVars>>

\* create_business, lines 74-82
BusinessBusinessCreate ==
    /\ pc = "business_create"
    /\ LET created == BusinessCreate(ids.business_id, ids.user_id, <<>>, <<>>)
       IN  /\ bizRes' = created
           /\ calls' = Append(calls, "Business::create")
           /\ IF created.kind = "Err"
              THEN /\ reply' = Err(Status("InvalidArgument", created.reason))
                   /\ pc' = "done"
              ELSE /\ reply' = reply
                   /\ pc' = "respond"
    /\ UNCHANGED <<handler, req, ids, userRes, entityVars, parVars>>

\* create_business, lines 83-91
BusinessRespond ==
    /\ pc = "respond"
    /\ LET user == userRes.val
           business == bizRes.val
       IN  reply' = Ok([user_id     |-> business.user_id,
                        business_id |-> business.business_id,
                        email       |-> user.email,
                        phone       |-> user.phone,
                        address     |-> user.address,
                        image_url   |-> user.image_url,
                        roles       |-> user.roles])
    /\ pc' = "done"
    /\ UNCHANGED <<handler, req, ids, calls, userRes, bizRes, entityVars, parVars>>

----------------------------------------------------------------------------
(* rayon: v.par_iter().map(|&val| val.to_string()).collect::<Vec<String>>() *)

ParInputs == SeqsUpTo(TagInputs \cup IdInputs, MaxListLen)

\* A consumer that pushes each result as it arrives
SlotWrite_Push(slots, finished, i, val) == [slots EXCEPT ![finished + 1] = val]

\* The indexed collect consumer: the worker that maps element i writes the
\* result into slot i; finished is the number of elements already written
SlotWrite(slots, finished, i, val) == [slots EXCEPT ![i] = val]

\* The vector is handed to the pool
ParStart ==
    /\ parPc = "idle"
    /\ \E v \in ParInputs :
        /\ parIn' = v
        /\ parPending' = 1..Len(v)
        /\ parSlots' = [i \in 1..Len(v) |-> None]
    /\ parDone' = <<>>
    /\ parOut' = <<>>
    /\ parPc' = "mapping"
    /\ UNCHANGED <<entityVars, handlerVars>>

\* Some worker maps some element that is still pending
ParMapElement ==
    /\ parPc = "mapping"
    /\ \E i \in parPending :
        /\ parSlots' = SlotWrite(parSlots, Len(parDone), i, Some(to_string(parIn[i])))
        /\ parDone' = Append(parDone, i)
        /\ parPending' = parPending \ {i}
    /\ UNCHANGED <<parIn, parOut, parPc, entityVars, handlerVars>>

\* All elements are mapped: the buffer becomes the Vec
ParCollect ==
    /\ parPc = "mapping"
    /\ parPending = {}
    /\ parOut' = [i \in 1..Len(parSlots) |-> parSlots[i].val]
    /\ parPc' = "collected"
    /\ UNCHANGED <<parIn, parPending, parSlots, parDone, entityVars, handlerVars>>

\* The next vector
ParReset ==
    /\ parPc = "collected"
    /\ parIn' = <<>>
    /\ parPending' = {}
    /\ parSlots' = <<>>
    /\ parDone' = <<>>
    /\ parOut' = <<>>
    /\ parPc' = "idle"
    /\ UNCHANGED <<entityVars, handlerVars>>

HandlerIdle ==
    /\ pc = "idle"
    /\ handler = "none"
    /\ req = None
    /\ ids = None
    /\ calls = <<>>
    /\ userRes = None
    /\ bizRes = None
    /\ reply = None

ParIdle ==
    /\ parPc = "idle"
    /\ parIn = <<>>
    /\ parPending = {}
    /\ parSlots = <<>>
    /\ parDone = <<>>
    /\ parOut = <<>>

EntityIdle ==
    /\ op = "none"
    /\ args = None
    /\ res = None
    /\ u = None

Init ==
    /\ EntityIdle
    /\ HandlerIdle
    /\ ParIdle

Next ==
    \/ CallUserNew
    \/ CallUserCreate
    \/ CallUpdateEmail
    \/ CallUpdatePhone
    \/ CallUpdateAddress
    \/ CallProductCreate
    \/ CallBusinessCreate
    \/ Drop

Spec == Init /\ [][Next]_vars

HandlerNext ==
    \/ CreateUser
    \/ BusinessStart
    \/ BusinessUserCreate
    \/ BusinessBusinessCreate
    \/ BusinessRespond

HandlerSpec == Init /\ [][HandlerNext]_vars

ParNext ==
    \/ ParStart
    \/ ParMapElement
    \/ ParCollect
    \/ ParReset

ParSpec == Init /\ [][ParNext]_vars

----------------------------------------------------------------------------
(* The validation table: per entity, the rules in order with their reasons *)

UserTable(a) ==
    << [pass |-> UuidParseStr(a.user_id),  reason |-> "UUID is not valid"],
       [pass |-> validate_email(a.email),  reason |-> "Email is not valid"],
       [pass |-> validate_phone(a.phone),  reason |-> "Phone is invalid"],
       [pass |-> UrlParse(a.image_url),    reason |-> "URL is not valid"] >>

ProductTable(a) ==
    << [pass |-> UuidParseStr(a.product_id),  reason |-> "UUID is not valid"],
       [pass |-> UuidParseStr(a.business_id), reason |-> "Business UUID is not valid"],
       [pass |-> UrlParse(a.image_url),       reason |-> "URL is not valid"],
       [pass |-> a.title >= 5,                reason |-> "Too short title"],
       [pass |-> a.title <= 100,              reason |-> "Too big title"],
       [pass |-> a.description >= 5,          reason |-> "Too short description"],
       [pass |-> a.title <= 1000,             reason |-> "Too big description"] >>

BusinessTable(a) ==
    << [pass |-> UuidParseStr(a.business_id), reason |-> "A ID is not a UUID"],
       [pass |-> UuidParseStr(a.user_id),     reason |-> "A ID is not a UUID"],
       [pass |-> \A i \in DOMAIN a.products_id : UuidParseStr(a.products_id[i]),
        reason |-> "A ID is not a UUID"] >>

Failing(table) == {i \in DOMAIN table : ~table[i].pass}

AllPass(table) == Failing(table) = {}

FirstFailureReason(table) ==
    table[CHOOSE i \in Failing(table) : \A j \in Failing(table) : i <= j].reason

TableReasons ==
    {"UUID is not valid", "Email is not valid", "Phone is invalid",
     "URL is not valid", "Business UUID is not valid", "Too short title",
     "Too big title", "Too short description", "Too big description",
     "A ID is not a UUID"}

UserFields ==
    {"user_id", "email", "phone", "address", "image_url", "password_hash",
     "confirmed", "roles"}

SameExcept(a, b, field) == \A g \in UserFields \ {field} : a[g] = b[g]

----------------------------------------------------------------------------
(* Claims about the entity model, checked under Spec *)

\* C1: User.create and Business.create return Ok iff every rule of the
\* entity's table passes, and the Ok value has every field equal to the
\* corresponding input, which is what new builds from the same arguments.
C1_CreateOkIffRulesPass ==
    /\ op = "User.create" =>
        /\ res.kind \in {"Ok", "Err"}
        /\ res.kind = "Ok" <=> AllPass(UserTable(args))
        /\ res.kind = "Ok" =>
            /\ \A f \in UserFields : res.val[f] = args[f]
            /\ res.val = UserNew(args.user_id, args.email, args.phone, args.address,
                                 args.image_url, args.password_hash, args.confirmed,
                                 args.roles)
    /\ op = "Business.create" =>
        /\ res.kind \in {"Ok", "Err"}
        /\ res.kind = "Ok" <=> AllPass(BusinessTable(args))
        /\ res.kind = "Ok" =>
            /\ \A f \in {"business_id", "user_id", "products_id", "business_tags"} :
                 res.val[f] = args[f]
            /\ res.val = BusinessNew(args.business_id, args.user_id,
                                     args.products_id, args.business_tags)

\* C1 witness: a Business.create with two product ids and two tags, every
\* rule passing, returned Ok
C1_Witness ==
    /\ op = "Business.create"
    /\ Len(args.products_id) = 2
    /\ Len(args.business_tags) = 2
    /\ args.business_tags[1] # args.business_tags[2]
    /\ AllPass(BusinessTable(args))
    /\ res.kind = "Ok"

\* C2: when one or more rules of the table fail, create returns the reason
\* of the lowest-numbered failing rule.
C2_FirstFailingRuleWins ==
    /\ op = "User.create" /\ ~AllPass(UserTable(args)) =>
         res = Err(FirstFailureReason(UserTable(args)))
    /\ op = "Product.create" /\ ~AllPass(ProductTable(args)) =>
         res = Err(FirstFailureReason(ProductTable(args)))
    /\ op = "Business.create" /\ ~AllPass(BusinessTable(args)) =>
         res = Err(FirstFailureReason(BusinessTable(args)))

\* C2 witness: email and phone both invalid, the email reason is returned
C2_Witness ==
    /\ op = "User.create"
    /\ UuidParseStr(args.user_id)
    /\ ~validate_email(args.email)
    /\ ~validate_phone(args.phone)
    /\ res = Err("Email is not valid")

\* C5: an update returns Ok iff its rule passes (update_address always), the
\* Ok value carries the new value in its own field and the receiver's value
\* in every other field, and the receiver is what it was.
C5_UpdateChangesOnlyItsField ==
    /\ op = "User.update_email" =>
        /\ res.kind \in {"Ok", "Err"}
        /\ res.kind = "Ok" <=> validate_email(args.email)
        /\ res.kind = "Ok" =>
             res.val.email = args.email /\ SameExcept(res.val, args.self, "email")
        /\ u = args.self
    /\ op = "User.update_phone" =>
        /\ res.kind \in {"Ok", "Err"}
        /\ res.kind = "Ok" <=> validate_phone(args.phone)
        /\ res.kind = "Ok" =>
             res.val.phone = args.phone /\ SameExcept(res.val, args.self, "phone")
        /\ u = args.self
    /\ op = "User.update_address" =>
        /\ res.kind = "Ok"
        /\ res.val.address = args.address
        /\ SameExcept(res.val, args.self, "address")
        /\ u = args.self

\* C5 witness: update_email succeeded on a confirmed user and changed the email
C5_Witness ==
    /\ op = "User.update_email"
    /\ res.kind = "Ok"
    /\ args.self.confirmed
    /\ Len(args.self.roles) > 0
    /\ res.val.email # args.self.email

\* C6: every failure reason is one of the table's reasons, and a phone that
\* fails the phone rule gets "Phone is invalid" from create and update_phone.
C6_ReasonsComeFromTheTable ==
    /\ op # "none" /\ res.kind = "Err" => res.reason \in TableReasons
    /\ op = "User.update_phone" /\ ~validate_phone(args.phone) =>
         res = Err("Phone is invalid")
    /\ op = "User.create" /\ res.kind = "Err"
          /\ UuidParseStr(args.user_id) /\ validate_email(args.email)
          /\ ~validate_phone(args.phone) =>
         res = Err("Phone is invalid")

\* C8: with rules 1-7 passing and a price that does not parse, Product.create
\* returns neither Ok nor Err; no Err of Product.create is about the price.
C8_PriceParseFailureAborts ==
    op = "Product.create" =>
        /\ AllPass(ProductTable(args)) /\ ~MoneyParses(args.unformatted_price) =>
             res = Panic
        /\ res = Panic =>
             AllPass(ProductTable(args)) /\ ~MoneyParses(args.unformatted_price)
        /\ res.kind = "Err" =>
             res.reason \in {ProductTable(args)[i].reason : i \in 1..7}

\* C8 witness: a product with valid ids, url, title and description and the
\* price "abc"
C8_Witness ==
    /\ op = "Product.create"
    /\ args.unformatted_price = "abc"
    /\ AllPass(ProductTable(args))
    /\ res = Panic

\* C9: Product.create never returns "Too big description"; a description of
\* any length >= 5 is accepted when the other rules pass.
C9_NoDescriptionUpperBound ==
    op = "Product.create" =>
        /\ res # Err("Too big description")
        /\ (/\ \A i \in 1..5 : ProductTable(args)[i].pass
            /\ args.description >= 5
            /\ MoneyParses(args.unformatted_price)) => res.kind = "Ok"

\* C9 witness: a description of 1001 bytes is accepted
C9_Witness ==
    /\ op = "Product.create"
    /\ args.description > 1000
    /\ res.kind = "Ok"
    /\ res.val.description = args.description

----------------------------------------------------------------------------
(* Claims about the handlers, checked under HandlerSpec *)

\* C3: the request's password goes into the entity's password_hash and the
\* request's address into its address, so a successful response's address is
\* the request's address and never the request's password.
C3_AddressAndPasswordSlots ==
    pc = "done" /\ reply.kind = "Ok" =>
        /\ userRes.val.password_hash = req.password
        /\ userRes.val.address = req.address
        /\ reply.val.address = req.address
        /\ req.password # req.address => reply.val.address # req.password

\* C4: in create_business a failing User.create ends the request with its
\* reason and Business.create is not invoked; a response needs both creates
\* to have succeeded; every failure is invalid-argument with the
\* constructor's reason.
C4_UserCreateBeforeBusinessCreate ==
    /\ handler = "create_business" /\ userRes.kind = "Err" =>
        /\ pc = "done"
        /\ reply = Err(Status("InvalidArgument", userRes.reason))
        /\ calls = <<"User::create">>
        /\ bizRes = None
    /\ bizRes # None =>
        /\ calls = <<"User::create", "Business::create">>
        /\ userRes.kind = "Ok"
    /\ handler = "create_business" /\ reply.kind = "Ok" =>
         userRes.kind = "Ok" /\ bizRes.kind = "Ok"
    /\ handler = "create_user" /\ reply.kind = "Ok" => userRes.kind = "Ok"
    /\ reply.kind = "Err" =>
        /\ reply.reason.code = "InvalidArgument"
        /\ \/ userRes.kind = "Err" /\ reply.reason.message = userRes.reason
           \/ bizRes.kind = "Err" /\ reply.reason.message = bizRes.reason

\* C4 witness: create_business ended on a rejected phone
C4_Witness ==
    /\ handler = "create_business"
    /\ pc = "done"
    /\ userRes = Err("Phone is invalid")
    /\ reply.kind = "Err"

\* C10: no request makes a handler return a UUID reason; Business.create in
\* create_business always succeeds; the outcome depends on the email, phone
\* and image_url rules alone.
C10_HandlersNeverFailOnIds ==
    /\ reply.kind = "Err" =>
         reply.reason.message \notin {"UUID is not valid", "A ID is not a UUID"}
    /\ bizRes # None => bizRes.kind = "Ok"
    /\ pc = "done" =>
         (reply.kind = "Ok" <=>
            validate_email(req.email) /\ validate_phone(req.phone)
                /\ UrlParse(req.image_url))

\* C10 witness: create_business answered after Business.create returned Ok
C10_Witness ==
    /\ handler = "create_business"
    /\ pc = "done"
    /\ bizRes.kind = "Ok"
    /\ reply.kind = "Ok"
    /\ reply.val.business_id = ids.business_id

----------------------------------------------------------------------------
(* Claim about the parallel map, checked under ParSpec *)

\* C7: the collected vector has the length, the elements and the order of
\* the input, whatever order the workers finished in.
C7_ParallelMapKeepsOrder ==
    parPc = "collected" =>
        /\ Len(parOut) = Len(parIn)
        /\ \A i \in 1..Len(parIn) : parOut[i] = parIn[i]
        /\ parOut = ParMapCollect(parIn)

\* C7 witness: two different elements, the second mapped first
C7_Witness ==
    /\ parPc = "collected"
    /\ Len(parIn) >= 2
    /\ parIn[1] # parIn[2]
    /\ parDone[1] = 2

====
